---- MODULE Spec2Model ----
(***************************************************************************)
(* A model of oranda's site build orchestration (src/src/site/mod.rs):     *)
(* Site::build_single, Site::build_single_json_only, Site::build_multi,    *)
(* Site::needs_context, Site::build_context, Site::build_changelog_pages   *)
(* and the path mapping of Site::write.                                    *)
(*                                                                         *)
(* Strings that the code takes apart (page file names) are sequences of    *)
(* tokens: "/" and "." are tokens of their own, every other token is a run *)
(* of characters holding neither.  "changelog/v1.html" is                  *)
(* <<"changelog", "/", "v1", ".", "html">>.  A path is the sequence of its *)
(* components, each component a token sequence.                            *)
(***************************************************************************)
EXTENDS Integers, Sequences, FiniteSets, TLC

\* ------------------------------------------------------------------ bounds
\* Longest release history a source client returns.
MaxReleases == 2
\* Most entries of config.build.additional_pages.
MaxAdditional == 1
\* Most members of a workspace.
MaxMembers == 2
\* Longest page file name, in tokens, handed to the path mapping of write.
MaxNameLen == 5

\* ------------------------------------------------------------------ options
None == [some |-> FALSE]
Some(v) == [some |-> TRUE, v |-> v]
Ok(v) == [ok |-> TRUE, v |-> v]
Err(e) == [ok |-> FALSE, err |-> e]

\* ------------------------------------------------------------------ paths
Sep == "/"
Dot == "."
\* The tokens page names are drawn from.
NameTokens == {Sep, Dot, "index", "html", "rss", "a"}

\* Index of the first (last) occurrence of token t in s, 0 if there is none.
FirstIndexOf(s, t) ==
    IF \E i \in 1..Len(s) : s[i] = t
    THEN CHOOSE i \in 1..Len(s) : s[i] = t /\ \A j \in 1..(i - 1) : s[j] # t
    ELSE 0

LastIndexOf(s, t) ==
    IF \E i \in 1..Len(s) : s[i] = t
    THEN CHOOSE i \in 1..Len(s) : s[i] = t /\ \A j \in (i + 1)..Len(s) : s[j] # t
    ELSE 0

\* The pieces of s between the separators, empty pieces included.
RECURSIVE SplitAtSep(_)
SplitAtSep(s) ==
    LET i == FirstIndexOf(s, Sep)
    IN  IF i = 0 THEN <<s>>
        ELSE <<SubSeq(s, 1, i - 1)>> \o SplitAtSep(SubSeq(s, i + 1, Len(s)))

RootDir == <<Sep>>
CurDir == <<Dot>>
ParentDir == <<Dot, Dot>>

\* std::path::Path::components: a leading "/" is the root component, empty
\* pieces (repeated or trailing separators) are dropped, and so is every "."
\* piece but a leading one.
RECURSIVE NormalPieces(_, _)
NormalPieces(pieces, first) ==
    IF pieces = <<>> THEN <<>>
    ELSE LET p == Head(pieces)
             rest == NormalPieces(Tail(pieces), FALSE)
         IN  IF p = <<>> \/ (p = CurDir /\ ~first) THEN rest ELSE <<p>> \o rest

HasRoot(s) == s # <<>> /\ s[1] = Sep

Components(s) ==
    IF HasRoot(s)
    THEN <<RootDir>> \o NormalPieces(SplitAtSep(Tail(s)), FALSE)
    ELSE NormalPieces(SplitAtSep(s), TRUE)

\* The string form of a path: its components joined by separators.
RECURSIVE PathString(_)
PathString(p) ==
    IF p = <<>> THEN <<>>
    ELSE IF Len(p) = 1 THEN p[1]
    ELSE IF p[1] = RootDir THEN RootDir \o PathString(Tail(p))
    ELSE p[1] \o <<Sep>> \o PathString(Tail(p))

\* Path::join: an absolute argument replaces the base.
Join(base, p) ==
    IF p # <<>> /\ p[1] = RootDir THEN p
    ELSE Components(PathString(base) \o (IF base = <<>> THEN <<>> ELSE <<Sep>>) \o PathString(p))

\* Path::ends_with(child), for a child of one normal component.
EndsWith(p, component) == p # <<>> /\ p[Len(p)] = component

\* Path::file_name: the last component unless it is "..", "." or the root.
FileName(p) ==
    IF p = <<>> \/ p[Len(p)] \in {ParentDir, CurDir, RootDir} THEN None
    ELSE Some(p[Len(p)])

\* std's rsplit_file_at_dot: <<before, after>> of the last dot of a file name.
RsplitFileAtDot(file) ==
    LET i == LastIndexOf(file, Dot)
    IN  IF file = ParentDir THEN <<Some(file), None>>
        ELSE IF i = 0 THEN <<None, Some(file)>>
        ELSE IF i = 1 THEN <<Some(file), None>>
        ELSE <<Some(SubSeq(file, 1, i - 1)), Some(SubSeq(file, i + 1, Len(file)))>>

\* Path::extension: before.and(after).
Extension(p) ==
    IF ~FileName(p).some THEN None
    ELSE LET ba == RsplitFileAtDot(FileName(p).v)
         IN  IF ba[1].some THEN ba[2] ELSE None

\* Path::file_stem: before.or(after).
FileStem(p) ==
    IF ~FileName(p).some THEN None
    ELSE LET ba == RsplitFileAtDot(FileName(p).v)
         IN  IF ba[1].some THEN ba[1] ELSE ba[2]

\* Path::parent: the path without its last component; none for the empty path
\* and for the root.
Parent(p) ==
    IF p = <<>> \/ p = <<RootDir>> THEN None
    ELSE Some(SubSeq(p, 1, Len(p) - 1))

IndexHtml == <<"index", Dot, "html">>

\* The mutation of FullPath that forgets the parent directory of a page.
FullPathNoParent(dist, filename) ==
    LET filename_path == Components(filename)
    IN  IF ~EndsWith(filename_path, IndexHtml) /\ Extension(filename_path) = Some(<<"html">>)
        THEN Join(Join(dist, Components(FileStem(filename_path).v)), <<IndexHtml>>)
        ELSE Join(dist, filename_path)

\* The disk path Site::write gives a page: the "pretty link" rewrite.
FullPath(dist, filename) ==
    LET filename_path == Components(filename)
    IN  IF ~EndsWith(filename_path, IndexHtml) /\ Extension(filename_path) = Some(<<"html">>)
        THEN LET file_stem == FileStem(filename_path).v
                 parent == IF Parent(filename_path).some THEN Parent(filename_path).v ELSE <<>>
             IN  Join(Join(Join(dist, parent), Components(file_stem)), <<IndexHtml>>)
        ELSE Join(dist, filename_path)


\* ------------------------------------------------------------------ configuration
\* What build_single reads of a Config.  repository: project.repository, none,
\* a URL GithubRepo::from_url accepts, or one it rejects.  artifacts:
\* components.artifacts_enabled().  changelog: components.changelog, none,
\* set without rss_feed, or set with it.  funding: components.funding.is_some().
\* source: components.source.  favicon: styles.favicon.is_some().
\* additional_pages: the values of build.additional_pages, each a markdown
\* file or not.
Repositories == {"none", "valid", "malformed"}
Changelogs == {"none", "plain", "rss"}
Sources == {"unset", "GitHub", "Axodotdev"}
AdditionalFiles == {"markdown", "other"}

SeqsUpTo(S, n) == UNION {[1..k -> S] : k \in 0..n}

Configs ==
    [repository : Repositories,
     artifacts : BOOLEAN,
     changelog : Changelogs,
     funding : BOOLEAN,
     source : Sources,
     favicon : BOOLEAN,
     additional_pages : SeqsUpTo(AdditionalFiles, MaxAdditional)]

NoConfig == [repository |-> "none", artifacts |-> FALSE, changelog |-> "none",
             funding |-> FALSE, source |-> "unset", favicon |-> FALSE,
             additional_pages |-> <<>>]

\* ------------------------------------------------------------------ releases
Statuses == {"Full", "Partial", "Unparseable"}

\* A Release: its tag, the source that produced it, its parse status, and
\* whether make_scripts_viewable has been applied to its artifacts.
Release(tag, source, status) ==
    [version_tag |-> tag, source |-> source, status |-> status, viewable |-> FALSE]

\* The release a source lists k-th from the oldest carries the tag "v<k>".
TagOf(k) == "v" \o ToString(k)

\* The histories a source client can return: newest first, any parse outcomes.
Histories(source) ==
    UNION {{[i \in 1..n |-> Release(TagOf(n + 1 - i), source, st[i])] :
                st \in [1..n -> Statuses]} : n \in 1..MaxReleases}

\* A Context: the ordered releases.
ContextOf(releases) == [releases |-> releases]

\* Context::new_current's Context: the one synthetic release of the present
\* working tree.
CurrentContext == ContextOf(<<Release("current", "CurrentWorkingTree", "Full")>>)

\* ReleaseSource::is_current_state.
IsCurrentState(source) == source = "CurrentWorkingTree"

\* Context::latest_mut: the index of the first release that is not
\* unparseable, 0 if there is none.
Latest(ctx) ==
    IF \E i \in 1..Len(ctx.releases) : ctx.releases[i].status # "Unparseable"
    THEN CHOOSE i \in 1..Len(ctx.releases) :
            /\ ctx.releases[i].status # "Unparseable"
            /\ \A j \in 1..(i - 1) : ctx.releases[j].status = "Unparseable"
    ELSE 0

\* ------------------------------------------------------------------ the outside world
\* An event of a build: a call that reaches outside the orchestrator.
Event(op, arg) == [op |-> op, arg |-> arg]
Call(op) == Event(op, "")

\* The error GithubRepo::from_url gives for a repository it cannot parse
\* (OrandaError::AxoProject through the From conversion).
RepoError == "AxoProject"
\* The errors of a release source that cannot be reached.
FetchErrors == {"GithubReleasesFetchError", "AxoReleasesFetchError"}

\* What GithubRelease::repo_has_releases can answer.
CheckOutcomes == {Ok(TRUE), Ok(FALSE), Err("ReleasesCheckFailed")}

\* The client build_context selects, and its constructor.
ClientOf(cfg) == IF cfg.source = "Axodotdev" THEN "Axodotdev" ELSE "GitHub"
ConstructorOf(cfg) ==
    IF cfg.source = "Axodotdev" THEN "Context::new_axodotdev" ELSE "Context::new_github"
FetchErrorOf(cfg) ==
    IF cfg.source = "Axodotdev" THEN "AxoReleasesFetchError" ELSE "GithubReleasesFetchError"

\* What Context::new_github / Context::new_axodotdev can return for cfg: a
\* repository that cannot be parsed is an error; one that can is unreachable,
\* has a history, or has no release (the synthetic Context).
FetchOutcomes(cfg) ==
    IF cfg.repository = "malformed" THEN {Err(RepoError)}
    ELSE {Err(FetchErrorOf(cfg)), Ok(CurrentContext)}
            \cup {Ok(ContextOf(h)) : h \in Histories(ClientOf(cfg))}

\* What Context::new_current can return.
CurrentOutcomes == {Ok(CurrentContext), Err("Context::new_current")}

\* ------------------------------------------------------------------ needs_context
\* Site::has_repo_and_releases: <<result, events>>.
HasRepoAndReleases(repo_config, check) ==
    IF repo_config = "none" THEN [ret |-> Ok(FALSE), events |-> <<>>]
    ELSE IF repo_config = "malformed" THEN [ret |-> Err(RepoError), events |-> <<>>]
    ELSE [ret |-> check,
          events |-> <<Event("GithubRelease::repo_has_releases",
                             IF ~check.ok THEN "error" ELSE IF check.v THEN "true" ELSE "false")>>]

\* The mutation of NeedsContext that forgets the repository test.
NeedsContextNoRepo(cfg, check) ==
    IF cfg.artifacts \/ cfg.changelog # "none" \/ cfg.funding
    THEN [ret |-> Ok(TRUE), events |-> <<>>]
    ELSE HasRepoAndReleases(cfg.repository, check)

\* The mutation of NeedsContext that evaluates has_repo_and_releases before
\* the tests of the configuration.
NeedsContextEager(cfg, check) ==
    LET has == HasRepoAndReleases(cfg.repository, check)
    IN  IF ~has.ret.ok THEN has
        ELSE [ret |-> Ok(cfg.repository # "none"
                         /\ (cfg.artifacts \/ cfg.changelog # "none" \/ cfg.funding
                             \/ has.ret.v)),
              events |-> has.events]

\* Site::needs_context, with the short circuits of && and ||.
NeedsContext(cfg, check) ==
    IF cfg.repository = "none" THEN [ret |-> Ok(FALSE), events |-> <<>>]
    ELSE IF cfg.artifacts \/ cfg.changelog # "none" \/ cfg.funding
    THEN [ret |-> Ok(TRUE), events |-> <<>>]
    ELSE HasRepoAndReleases(cfg.repository, check)

\* ------------------------------------------------------------------ build_context
\* The mutation of BuildContext that returns the error of the source.
BuildContextHardError(cfg, fetch, current) ==
    IF cfg.repository = "none"
    THEN [ret |-> current, events |-> <<Call("Context::new_current")>>]
    ELSE [ret |-> fetch, events |-> <<Call(ConstructorOf(cfg))>>]

\* The mutation of BuildContext that asks the source even without a repository.
BuildContextAlwaysFetch(cfg, fetch, current) ==
    IF fetch.ok
    THEN [ret |-> fetch, events |-> <<Call(ConstructorOf(cfg))>>]
    ELSE [ret |-> current,
          events |-> <<Call(ConstructorOf(cfg)), Event("eprintln", fetch.err),
                       Call("Context::new_current")>>]

\* Site::build_context: <<result, events>>.  fetch is what the source client
\* would return, current what Context::new_current would.
BuildContext(cfg, fetch, current) ==
    IF cfg.repository = "none"
    THEN [ret |-> current, events |-> <<Call("Context::new_current")>>]
    ELSE IF fetch.ok
    THEN [ret |-> fetch, events |-> <<Call(ConstructorOf(cfg))>>]
    ELSE [ret |-> current,
          events |-> <<Call(ConstructorOf(cfg)), Event("eprintln", fetch.err),
                       Call("Context::new_current")>>]

\* ------------------------------------------------------------------ pages
\* A Page: its file name, the template it was rendered from and the template
\* context it was rendered with.
Page(name, template, ctx) == [filename |-> name, template |-> template, context |-> ctx]

ArtifactsHtml == <<"artifacts", Dot, "html">>
ChangelogHtml == <<"changelog", Dot, "html">>
ChangelogRss == <<"changelog", Dot, "rss">>
FundingHtml == <<"funding", Dot, "html">>
\* format!("changelog/{}.html", version_tag)
ReleaseHtml(tag) == <<"changelog", Sep, tag, Dot, "html">>
\* The name Page::new_from_markdown gives the i-th additional page.
AdditionalHtml(i) == <<"page" \o ToString(i), Dot, "html">>

\* The index page: the readme rendered into index.html with a template context.
IndexPage(ctx) == Page(IndexHtml, "index.html", ctx)

RECURSIVE AdditionalFrom(_, _)
AdditionalFrom(files, i) ==
    IF i > Len(files) THEN <<>>
    ELSE (IF files[i] = "markdown"
          THEN <<Page(AdditionalHtml(i), "markdown", "additional")>>
          ELSE <<>>) \o AdditionalFrom(files, i + 1)

\* Site::build_additional_pages: one page per markdown file, the others are
\* skipped with a warning.
BuildAdditionalPages(files) == AdditionalFrom(files, 1)

\* The mutation of BuildChangelogPages that also renders the placeholder.
BuildChangelogPagesAll(ctx, cfg) ==
    <<Page(ChangelogHtml, "changelog_index.html", "changelog")>>
    \o (IF cfg.changelog = "rss" THEN <<Page(ChangelogRss, "rss", "changelog")>> ELSE <<>>)
    \o [i \in 1..Len(ctx.releases) |->
            Page(ReleaseHtml(ctx.releases[i].version_tag), "changelog_single.html", "release")]

\* The mutation of BuildChangelogPages that leaves out the releases whose
\* manifest could not be parsed.
BuildChangelogPagesParsedOnly(ctx, cfg) ==
    LET Parsed(r) == r.status # "Unparseable"
        parsed == SelectSeq(ctx.releases, Parsed)
    IN  <<Page(ChangelogHtml, "changelog_index.html", "changelog")>>
        \o (IF cfg.changelog = "rss" THEN <<Page(ChangelogRss, "rss", "changelog")>> ELSE <<>>)
        \o (IF ~(Len(ctx.releases) = 1 /\ IsCurrentState(ctx.releases[1].source))
            THEN [i \in 1..Len(parsed) |->
                    Page(ReleaseHtml(parsed[i].version_tag), "changelog_single.html", "release")]
            ELSE <<>>)

\* Site::build_changelog_pages: the pages it returns when nothing fails.
BuildChangelogPages(ctx, cfg) ==
    <<Page(ChangelogHtml, "changelog_index.html", "changelog")>>
    \o (IF cfg.changelog = "rss" THEN <<Page(ChangelogRss, "rss", "changelog")>> ELSE <<>>)
    \o (IF ~(Len(ctx.releases) = 1 /\ IsCurrentState(ctx.releases[1].source))
        THEN [i \in 1..Len(ctx.releases) |->
                Page(ReleaseHtml(ctx.releases[i].version_tag), "changelog_single.html", "release")]
        ELSE <<>>)

\* ------------------------------------------------------------------ state
VARIABLES
    config,      \* build_single: the Config it was called with
    json_only,   \* whether the call is build_single_json_only
    pc,          \* build_single: the stage about to run
    context,     \* build_single: the local `context`, an Option<Context>
    pages,       \* build_single: the local `pages`
    index,       \* build_single: the local `index`, an Option<Page>
    trace,       \* the calls the build has made outside the orchestrator, in order
    result,      \* what build_single returned: NoResult, Ok(Site) or Err(error)
    members,     \* build_multi: the workspace members
    mpc,         \* build_multi: its position
    mi,          \* build_multi: the index of the member of the current iteration
    results,     \* build_multi: the local `results`
    cwd,         \* the working directory of the process
    mresult,     \* what build_multi returned
    mjson,       \* build_multi: its json_only argument
    filename,    \* write: the file name of the page being written
    full_path,   \* write: the disk path the page was written to
    wconfig,     \* write: what it reads of its Config argument
    wpc,         \* write: its position
    wi,          \* write: the index of the next page of self.pages
    written,     \* write: the disk paths written so far, in order
    wresult      \* what write returned

buildVars == <<config, json_only, pc, context, pages, index, trace, result>>
multiVars == <<members, mpc, mi, results, cwd, mresult, mjson>>
writeVars == <<filename, full_path, wconfig, wpc, wi, written, wresult>>
vars == <<config, json_only, pc, context, pages, index, trace, result,
          members, mpc, mi, results, cwd, mresult, mjson, filename, full_path,
          wconfig, wpc, wi, written, wresult>>

NoResult == [ok |-> FALSE, err |-> "unfinished"]
Site(ps, wd) == [pages |-> ps, workspace_data |-> wd]
RootPath == "root"

\* ------------------------------------------------------------------ build_single
\* Entry to build_single / build_single_json_only: fresh locals.
Enter(cfg, jo) ==
    /\ config' = cfg
    /\ json_only' = jo
    /\ pc' = "clean_dist_dir"
    /\ context' = None
    /\ pages' = <<>>
    /\ index' = None
    /\ trace' = <<>>
    /\ result' = NoResult

\* A `?` that fires: the function returns the error.
Return(r) == pc' = "done" /\ result' = r

\* A stage that makes one fallible call and moves on.
Stage(at, op, next) ==
    /\ pc = at
    /\ \E ok \in BOOLEAN :
        IF ok
        THEN /\ trace' = Append(trace, Call(op))
             /\ pc' = next
             /\ result' = result
        ELSE /\ trace' = trace
             /\ Return(Err(op))

\* Site::build_single(config, None) called on its own.
BuildSingle ==
    /\ pc = "idle" /\ mpc = "idle"
    /\ \E cfg \in Configs : Enter(cfg, FALSE)
    /\ UNCHANGED <<multiVars, writeVars>>

\* Site::build_single_json_only(config, None) called on its own.
BuildSingleJsonOnly ==
    /\ pc = "idle" /\ mpc = "idle"
    /\ \E cfg \in Configs : Enter(cfg, TRUE)
    /\ UNCHANGED <<multiVars, writeVars>>

\* config.build.dist_dir, the string.
DistDir == <<"public">>

\* The error of std::fs::create_dir_all in clean_dist_dir, with the path.
DistDirCreationError(dist_path) ==
    [ok |-> FALSE, err |-> "DistDirCreationError", dist_path |-> dist_path]

\* What clean_dist_dir returns: the error of remove_dir_all as it is, the
\* error of create_dir_all as DistDirCreationError.
CleanDistDirResult(dist_path, outcome) ==
    IF outcome = "ok" THEN Ok("unit")
    ELSE IF outcome = "Io" THEN Err("Io")
    ELSE DistDirCreationError(dist_path)

\* The mutation of CleanDistDir that goes on after a failure.
CleanDistDirIgnored ==
    /\ pc = "clean_dist_dir"
    /\ \E outcome \in {"ok", "Io", "DistDirCreationError"} :
        /\ trace' = IF outcome = "ok" THEN Append(trace, Call("clean_dist_dir")) ELSE trace
        /\ pc' = IF json_only THEN "needs_context" ELSE "place_assets"
        /\ result' = result
    /\ UNCHANGED <<config, json_only, context, pages, index, multiVars, writeVars>>

\* Site::clean_dist_dir(&config.build.dist_dir)?: remove the directory, then
\* create it again.
CleanDistDir ==
    /\ pc = "clean_dist_dir"
    /\ \E outcome \in {"ok", "Io", "DistDirCreationError"} :
        LET r == CleanDistDirResult(DistDir, outcome)
        IN  IF r.ok
            THEN /\ trace' = Append(trace, Call("clean_dist_dir"))
                 /\ pc' = IF json_only THEN "needs_context" ELSE "place_assets"
                 /\ result' = result
            ELSE /\ trace' = trace
                 /\ Return(r)
    /\ UNCHANGED <<config, json_only, context, pages, index, multiVars, writeVars>>

\* place_default_favicon when no favicon is configured, then place_css.
PlaceAssets ==
    /\ pc = "place_assets"
    /\ \E outcome \in {"ok", "place_default_favicon", "place_css"} :
        LET favicon == IF config.favicon THEN <<>> ELSE <<Call("place_default_favicon")>>
        IN  IF outcome = "ok"
            THEN /\ trace' = trace \o favicon \o <<Call("place_css")>>
                 /\ pc' = "needs_context"
                 /\ result' = result
            ELSE IF outcome = "place_css"
            THEN /\ trace' = trace \o favicon
                 /\ Return(Err(outcome))
            ELSE /\ ~config.favicon
                 /\ trace' = trace
                 /\ Return(Err(outcome))
    /\ UNCHANGED <<config, json_only, context, pages, index, multiVars, writeVars>>

\* let needs_context = Self::needs_context(config)?
NeedsContextStep ==
    /\ pc = "needs_context"
    /\ \E check \in CheckOutcomes :
        LET r == NeedsContext(config, check)
        IN  /\ trace' = trace \o r.events
            /\ IF ~r.ret.ok THEN Return(r.ret)
               ELSE /\ pc' = IF r.ret.v THEN "build_context"
                             ELSE IF json_only THEN "json_artifacts" ELSE "templates"
                    /\ result' = result
    /\ UNCHANGED <<config, json_only, context, pages, index, multiVars, writeVars>>

\* Some(Self::build_context(config)?)
BuildContextStep ==
    /\ pc = "build_context"
    /\ \E fetch \in FetchOutcomes(config), current \in CurrentOutcomes :
        LET r == BuildContext(config, fetch, current)
        IN  /\ trace' = trace \o r.events
            /\ IF ~r.ret.ok
               THEN Return(r.ret) /\ context' = context
               ELSE /\ context' = Some(r.ret.v)
                    /\ pc' = IF json_only THEN "json_artifacts" ELSE "templates"
                    /\ result' = result
    /\ UNCHANGED <<config, json_only, pages, index, multiVars, writeVars>>

\* Templates::new(config, context.as_ref())?
TemplatesStep ==
    /\ Stage("templates", "Templates::new", "additional_pages")
    /\ UNCHANGED <<config, json_only, context, pages, index, multiVars, writeVars>>

\* The additional pages, when there are any, and print_plan (which only logs).
AdditionalPagesStep ==
    /\ pc = "additional_pages"
    /\ IF config.additional_pages = <<>>
       THEN /\ pages' = pages
            /\ pc' = "artifacts"
            /\ UNCHANGED <<trace, result>>
       ELSE \E ok \in BOOLEAN :
            IF ok
            THEN /\ pages' = pages \o BuildAdditionalPages(config.additional_pages)
                 /\ trace' = Append(trace, Call("build_additional_pages"))
                 /\ pc' = "artifacts"
                 /\ result' = result
            ELSE /\ Return(Err("build_additional_pages"))
                 /\ UNCHANGED <<pages, trace>>
    /\ UNCHANGED <<config, json_only, context, index, multiVars, writeVars>>

\* latest.artifacts.make_scripts_viewable(config): the release at index i of
\* the Context becomes viewable.
MakeScriptsViewable(ctx, i) ==
    ContextOf([ctx.releases EXCEPT ![i].viewable = TRUE])

\* The mutation of ViewableLatest that adjusts every release of the Context.
ViewableAll(ctx) ==
    ContextOf([k \in 1..Len(ctx.releases) |-> [ctx.releases[k] EXCEPT !.viewable = TRUE]])

\* if let Some(latest) = context.latest_mut() {
\*     latest.artifacts.make_scripts_viewable(config)?
ViewableLatest(ctx) == MakeScriptsViewable(ctx, Latest(ctx))

\* The calls of the artifacts block of build_single, in order; has_json tells
\* whether artifacts::template_context returned Some.
ArtifactsOps(has_json) ==
    <<"make_scripts_viewable", "artifacts::template_context",
      "render index.html", "render artifacts.html">>
    \o (IF has_json THEN <<"write_artifacts_json">> ELSE <<>>)

\* The calls of the artifacts block of build_single_json_only.
JsonArtifactsOps(has_json) ==
    <<"make_scripts_viewable", "artifacts::template_context">>
    \o (IF has_json THEN <<"write_artifacts_json">> ELSE <<>>)

Calls(ops) == [i \in 1..Len(ops) |-> Call(ops[i])]

\* The calls made when the fail-th of ops returns an error (0: none does).
CallsBefore(ops, fail) == IF fail = 0 THEN Calls(ops) ELSE Calls(SubSeq(ops, 1, fail - 1))

\* The mutation of ArtifactsRun that does not ask for a latest release.
ArtifactsRunWithoutLatest == context.some /\ config.artifacts

\* Whether the artifacts block runs: a Context exists, artifacts are enabled
\* and the Context has a latest release.
ArtifactsRun == context.some /\ config.artifacts /\ Latest(context.v) # 0

\* if config.components.artifacts_enabled() { if let Some(latest) = ... }
ArtifactsStep ==
    /\ pc = "artifacts"
    /\ IF ~ArtifactsRun
       THEN /\ pc' = "changelog"
            /\ UNCHANGED <<context, pages, index, trace, result>>
       ELSE \E has_json \in BOOLEAN :
            \E fail \in 0..Len(ArtifactsOps(has_json)) :
                LET ops == ArtifactsOps(has_json)
                    reached(k) == fail = 0 \/ fail > k
                IN  /\ trace' = trace \o CallsBefore(ops, fail)
                    /\ context' = IF reached(1)
                                  THEN Some(ViewableLatest(context.v))
                                  ELSE context
                    /\ index' = IF reached(3) THEN Some(IndexPage("artifacts")) ELSE index
                    /\ pages' = IF reached(4)
                                THEN Append(pages, Page(ArtifactsHtml, "artifacts.html", "artifacts"))
                                ELSE pages
                    /\ IF fail = 0
                       THEN pc' = "changelog" /\ result' = result
                       ELSE Return(Err(ops[fail]))
    /\ UNCHANGED <<config, json_only, multiVars, writeVars>>

\* The mutation of ChangelogStep that isolates the component: a failure of
\* build_changelog_pages drops the changelog pages and the build goes on.
ChangelogStepIsolated ==
    /\ pc = "changelog"
    /\ \E ok \in BOOLEAN :
        /\ pages' = IF ok /\ context.some /\ config.changelog # "none"
                    THEN pages \o BuildChangelogPages(context.v, config)
                    ELSE pages
        /\ trace' = IF ok /\ context.some /\ config.changelog # "none"
                    THEN Append(trace, Call("build_changelog_pages"))
                    ELSE trace
    /\ pc' = "funding"
    /\ UNCHANGED <<result, config, json_only, context, index, multiVars, writeVars>>

\* if config.components.changelog.is_some() { build_changelog_pages }
ChangelogStep ==
    /\ pc = "changelog"
    /\ IF ~(context.some /\ config.changelog # "none")
       THEN /\ pc' = "funding"
            /\ UNCHANGED <<pages, trace, result>>
       ELSE \E ok \in BOOLEAN :
            IF ok
            THEN /\ pages' = pages \o BuildChangelogPages(context.v, config)
                 /\ trace' = Append(trace, Call("build_changelog_pages"))
                 /\ pc' = "funding"
                 /\ result' = result
            ELSE /\ Return(Err("build_changelog_pages"))
                 /\ UNCHANGED <<pages, trace>>
    /\ UNCHANGED <<config, json_only, context, index, multiVars, writeVars>>

\* The mutation of FundingStep that puts the funding page first.
FundingStepFirst ==
    /\ pc = "funding"
    /\ pages' = IF context.some /\ config.funding
                THEN <<Page(FundingHtml, "funding.html", "funding")>> \o pages
                ELSE pages
    /\ pc' = "index"
    /\ UNCHANGED <<trace, result, config, json_only, context, index, multiVars, writeVars>>

\* The mutation of FundingStep that builds the funding page whether or not a
\* Context exists.
FundingStepUngated ==
    /\ pc = "funding"
    /\ pages' = IF config.funding
                THEN Append(pages, Page(FundingHtml, "funding.html", "funding"))
                ELSE pages
    /\ pc' = "index"
    /\ UNCHANGED <<trace, result, config, json_only, context, index, multiVars, writeVars>>

\* if let Some(funding_cfg) = &config.components.funding { ... }
FundingStep ==
    /\ pc = "funding"
    /\ IF ~(context.some /\ config.funding)
       THEN /\ pc' = "index"
            /\ UNCHANGED <<pages, trace, result>>
       ELSE \E fail \in 0..3 :
            LET ops == <<"Funding::new", "funding::context", "render funding.html">>
            IN  /\ trace' = trace \o CallsBefore(ops, fail)
                /\ IF fail = 0
                   THEN /\ pages' = Append(pages, Page(FundingHtml, "funding.html", "funding"))
                        /\ pc' = "index"
                        /\ result' = result
                   ELSE /\ pages' = pages
                        /\ Return(Err(ops[fail]))
    /\ UNCHANGED <<config, json_only, context, index, multiVars, writeVars>>

\* The mutation of IndexStep without the fallback to the plain readme.
IndexStepNoFallback ==
    /\ pc = "index"
    /\ pages' = IF index.some THEN Append(pages, index.v) ELSE pages
    /\ Return(Ok(Site(pages', None)))
    /\ UNCHANGED <<index, trace, config, json_only, context, multiVars, writeVars>>

\* The index of the artifacts block, or the plain readme; then Ok(Site).
IndexStep ==
    /\ pc = "index"
    /\ IF index.some
       THEN /\ pages' = Append(pages, index.v)
            /\ Return(Ok(Site(pages', None)))
            /\ UNCHANGED <<index, trace>>
       ELSE \E ok \in BOOLEAN :
            IF ok
            THEN /\ trace' = Append(trace, Call("render index.html"))
                 /\ index' = Some(IndexPage("empty"))
                 /\ pages' = Append(pages, IndexPage("empty"))
                 /\ Return(Ok(Site(pages', None)))
            ELSE /\ Return(Err("render index.html"))
                 /\ UNCHANGED <<pages, index, trace>>
    /\ UNCHANGED <<config, json_only, context, multiVars, writeVars>>

\* The mutation of JsonArtifactsStep that returns the Site with the index of
\* the plain readme.
JsonArtifactsStepWithIndex ==
    /\ pc = "json_artifacts"
    /\ Return(Ok(Site(<<IndexPage("empty")>>, None)))
    /\ UNCHANGED <<context, trace, config, json_only, pages, index, multiVars, writeVars>>

\* The artifacts block of build_single_json_only, then Ok(Site) without pages.
JsonArtifactsStep ==
    /\ pc = "json_artifacts"
    /\ IF ~ArtifactsRun
       THEN /\ Return(Ok(Site(<<>>, None)))
            /\ UNCHANGED <<context, trace>>
       ELSE \E has_json \in BOOLEAN :
            \E fail \in 0..Len(JsonArtifactsOps(has_json)) :
                LET ops == JsonArtifactsOps(has_json)
                IN  /\ trace' = trace \o CallsBefore(ops, fail)
                    /\ context' = IF fail = 0 \/ fail > 1
                                  THEN Some(ViewableLatest(context.v))
                                  ELSE context
                    /\ IF fail = 0
                       THEN Return(Ok(Site(<<>>, None)))
                       ELSE Return(Err(ops[fail]))
    /\ UNCHANGED <<config, json_only, pages, index, multiVars, writeVars>>

\* ------------------------------------------------------------------ build_multi
\* The configurations workspace members are drawn from: a bare readme site, a
\* site with every component on a reachable repository, and a site whose
\* repository cannot be parsed.
MemberConfigs ==
    {[NoConfig EXCEPT !.favicon = TRUE],
     [NoConfig EXCEPT !.repository = "valid", !.artifacts = TRUE,
                      !.changelog = "rss", !.funding = TRUE],
     [NoConfig EXCEPT !.repository = "malformed"]}

\* A WorkspaceData: the i-th member of the workspace.
Member(i, cfg) ==
    [slug |-> "member" \o ToString(i), path |-> "member" \o ToString(i), config |-> cfg]

\* What workspaces::from_config can return.
Workspaces ==
    UNION {{[i \in 1..n |-> Member(i, cfgs[i])] : cfgs \in [1..n -> MemberConfigs]} :
            n \in 0..MaxMembers}

NoMembers == <<>>

\* Site::build_multi up to the loop: the root is the current directory, the
\* members come from workspaces::from_config.
BuildMulti ==
    /\ pc = "idle" /\ mpc = "idle"
    /\ \E jo \in BOOLEAN, from_config \in {Err("workspaces::from_config")} \cup {Ok(w) : w \in Workspaces} :
        /\ mjson' = jo
        /\ IF from_config.ok
           THEN /\ members' = from_config.v
                /\ mpc' = "loop"
                /\ mresult' = mresult
           ELSE /\ members' = members
                /\ mpc' = "done"
                /\ mresult' = from_config
    /\ mi' = 1
    /\ results' = <<>>
    /\ UNCHANGED <<cwd, buildVars, writeVars>>

\* for member in &members: std::env::set_current_dir(&member.path)?
MemberSetDir ==
    /\ mpc = "loop" /\ mi <= Len(members)
    /\ \E ok \in BOOLEAN :
        IF ok
        THEN /\ cwd' = members[mi].path
             /\ mpc' = "call"
             /\ mresult' = mresult
        ELSE /\ cwd' = cwd
             /\ mpc' = "done"
             /\ mresult' = Err("set_current_dir")
    /\ UNCHANGED <<members, mi, results, mjson, buildVars, writeVars>>

\* The call of build_single or build_single_json_only for the member.
MemberCall ==
    /\ mpc = "call"
    /\ Enter(members[mi].config, mjson)
    /\ mpc' = "building"
    /\ UNCHANGED <<members, mi, results, cwd, mresult, mjson, writeVars>>

\* The mutation of MemberReturn that restores the directory before the
\* error leaves build_multi.
MemberReturnRestoring ==
    /\ mpc = "building" /\ pc = "done"
    /\ IF result.ok
       THEN /\ results' = Append(results, [result.v EXCEPT !.workspace_data = Some(members[mi])])
            /\ mpc' = "restore"
            /\ UNCHANGED <<mresult, cwd>>
       ELSE /\ mresult' = result
            /\ mpc' = "done"
            /\ cwd' = RootPath
            /\ results' = results
    /\ UNCHANGED <<members, mi, mjson, buildVars, writeVars>>

\* The mutation of MemberReturn that pushes the Site as the member's build
\* returned it.
MemberReturnNoData ==
    /\ mpc = "building" /\ pc = "done"
    /\ IF result.ok
       THEN /\ results' = Append(results, result.v)
            /\ mpc' = "restore"
            /\ mresult' = mresult
       ELSE /\ mresult' = result
            /\ mpc' = "done"
            /\ results' = results
    /\ UNCHANGED <<members, mi, cwd, mjson, buildVars, writeVars>>

\* The `?` on the member's build, site.workspace_data = Some(member.clone())
\* and results.push(site).
MemberReturn ==
    /\ mpc = "building" /\ pc = "done"
    /\ IF result.ok
       THEN /\ results' = Append(results, [result.v EXCEPT !.workspace_data = Some(members[mi])])
            /\ mpc' = "restore"
            /\ mresult' = mresult
       ELSE /\ mresult' = result
            /\ mpc' = "done"
            /\ results' = results
    /\ UNCHANGED <<members, mi, cwd, mjson, buildVars, writeVars>>

\* The mutation of MemberRestoreDir that leaves the directory where it is.
MemberRestoreDirForgotten ==
    /\ mpc = "restore"
    /\ mi' = mi + 1
    /\ mpc' = "loop"
    /\ UNCHANGED <<cwd, mresult, members, results, mjson, buildVars, writeVars>>

\* std::env::set_current_dir(&root_path)? and the next iteration.
MemberRestoreDir ==
    /\ mpc = "restore"
    /\ \E ok \in BOOLEAN :
        IF ok
        THEN /\ cwd' = RootPath
             /\ mi' = mi + 1
             /\ mpc' = "loop"
             /\ mresult' = mresult
        ELSE /\ mpc' = "done"
             /\ mresult' = Err("set_current_dir")
             /\ UNCHANGED <<cwd, mi>>
    /\ UNCHANGED <<members, results, mjson, buildVars, writeVars>>

\* Ok(results)
BuildMultiReturn ==
    /\ mpc = "loop" /\ mi > Len(members)
    /\ mpc' = "done"
    /\ mresult' = Ok(results)
    /\ UNCHANGED <<members, mi, results, cwd, mjson, buildVars, writeVars>>

\* ------------------------------------------------------------------ write
\* The dist directory of the build.
Dist == Components(DistDir)
NoPath == <<>>

\* The page names write is given: relative names of at most MaxNameLen tokens.
PageNames == {n \in SeqsUpTo(NameTokens, MaxNameLen) : n # <<>> /\ ~HasRoot(n)}

\* One turn of the loop of Site::write: the page is written to its full path.
WritePage ==
    /\ full_path = NoPath
    /\ full_path' = FullPath(Dist, filename)
    /\ UNCHANGED <<filename, wconfig, wpc, wi, written, wresult, buildVars, multiVars>>

\* What write reads of its Config beyond the dist directory:
\* components.mdbook.is_some(), styles.favicon.is_some() and whether
\* styles.additional_css is not empty.
WriteConfigs == [mdbook : BOOLEAN, favicon : BOOLEAN, additional_css : BOOLEAN]
NoWriteConfig == [mdbook |-> FALSE, favicon |-> FALSE, additional_css |-> FALSE]

\* site.write(Some(config)) on the Site build_single(config, None) returned:
\* the Config is the one of the build.  Of that Config the page loop reads
\* the dist directory only; the fields WriteConfigs names are drawn where
\* write first reads one of them, after the loop.
WriteStart ==
    /\ mpc = "idle" /\ ~json_only
    /\ pc = "done" /\ result.ok
    /\ wpc = "idle"
    /\ wpc' = "pages"
    /\ wi' = 1
    /\ UNCHANGED <<filename, full_path, wconfig, written, wresult, buildVars, multiVars>>

\* The mutation of WriteNextPage that goes on to the next page when a page
\* cannot be written.
WriteNextPageSkipping ==
    /\ wpc = "pages" /\ wi <= Len(result.v.pages)
    /\ \E ok \in BOOLEAN :
        IF ok
        THEN /\ written' = Append(written, FullPath(Dist, result.v.pages[wi].filename))
             /\ trace' = Append(trace, Call("LocalAsset::write_new_all"))
        ELSE UNCHANGED <<written, trace>>
    /\ wi' = wi + 1
    /\ UNCHANGED <<wpc, wresult, filename, full_path, wconfig, config, json_only, pc,
                   context, pages, index, result, multiVars>>

\* for page in self.pages: LocalAsset::write_new_all(&page.contents, full_path)?
WriteNextPage ==
    /\ wpc = "pages" /\ wi <= Len(result.v.pages)
    /\ \E ok \in BOOLEAN :
        IF ok
        THEN /\ written' = Append(written, FullPath(Dist, result.v.pages[wi].filename))
             /\ trace' = Append(trace, Call("LocalAsset::write_new_all"))
             /\ wi' = wi + 1
             /\ UNCHANGED <<wpc, wresult>>
        ELSE /\ wpc' = "done"
             /\ wresult' = Err("LocalAsset::write_new_all")
             /\ UNCHANGED <<written, trace, wi>>
    /\ UNCHANGED <<filename, full_path, wconfig, config, json_only, pc, context, pages,
                   index, result, multiVars>>

\* if let Some(book_cfg) = &config.components.mdbook { build_mdbook(..)? }
WriteBook ==
    /\ wpc = "pages" /\ wi > Len(result.v.pages)
    /\ \E wc \in WriteConfigs :
        /\ wc.favicon = config.favicon
        /\ wconfig' = wc
        /\ IF ~wc.mdbook
           THEN /\ wpc' = "assets"
                /\ UNCHANGED <<trace, wresult>>
           ELSE \E ok \in BOOLEAN :
                IF ok
                THEN /\ trace' = Append(trace, Call("mdbook::build_mdbook"))
                     /\ wpc' = "assets"
                     /\ wresult' = wresult
                ELSE /\ wpc' = "done"
                     /\ wresult' = Err("mdbook::build_mdbook")
                     /\ trace' = trace
    /\ UNCHANGED <<filename, full_path, wi, written, config, json_only, pc,
                   context, pages, index, result, multiVars>>

\* The asset steps of write, in order: the copy of the configured favicon,
\* the copy of the static directory when it exists, the OS script, and the
\* additional CSS when there is some.
WriteAssetOps(wc, static_exists) ==
    (IF wc.favicon THEN <<"Asset::copy">> ELSE <<>>)
    \o (IF static_exists THEN <<"copy_static">> ELSE <<>>)
    \o <<"javascript::write_os_script">>
    \o (IF wc.additional_css THEN <<"css::write_additional_css">> ELSE <<>>)

\* The mutation of WriteAssets that places the CSS at the end of write.
WriteAssetsWithCss ==
    /\ wpc = "assets"
    /\ trace' = trace \o Calls(WriteAssetOps(wconfig, FALSE)) \o <<Call("place_css")>>
    /\ wpc' = "done"
    /\ wresult' = Ok("unit")
    /\ UNCHANGED <<filename, full_path, wconfig, wi, written, config, json_only, pc,
                   context, pages, index, result, multiVars>>

\* The favicon, the static directory, the OS script and the additional CSS,
\* each followed by ?; then Ok(()).
WriteAssets ==
    /\ wpc = "assets"
    /\ \E static_exists \in BOOLEAN :
       \E fail \in 0..Len(WriteAssetOps(wconfig, static_exists)) :
            LET ops == WriteAssetOps(wconfig, static_exists)
            IN  /\ trace' = trace \o CallsBefore(ops, fail)
                /\ wresult' = IF fail = 0 THEN Ok("unit") ELSE Err(ops[fail])
    /\ wpc' = "done"
    /\ UNCHANGED <<filename, full_path, wconfig, wi, written, config, json_only, pc,
                   context, pages, index, result, multiVars>>

\* ------------------------------------------------------------------ specifications
InitBuild ==
    /\ config = NoConfig
    /\ json_only = FALSE
    /\ pc = "idle"
    /\ context = None
    /\ pages = <<>>
    /\ index = None
    /\ trace = <<>>
    /\ result = NoResult

InitMulti ==
    /\ members = NoMembers
    /\ mpc = "idle"
    /\ mi = 1
    /\ results = <<>>
    /\ cwd = RootPath
    /\ mresult = NoResult
    /\ mjson = FALSE

\* write has not been called.
InitWriteCall ==
    /\ wconfig = NoWriteConfig
    /\ wpc = "idle"
    /\ wi = 1
    /\ written = <<>>
    /\ wresult = NoResult

Init ==
    /\ InitBuild
    /\ InitMulti
    /\ InitWriteCall
    /\ filename = <<>>
    /\ full_path = NoPath

Next ==
    \/ BuildSingle
    \/ BuildSingleJsonOnly
    \/ CleanDistDir
    \/ PlaceAssets
    \/ NeedsContextStep
    \/ BuildContextStep
    \/ TemplatesStep
    \/ AdditionalPagesStep
    \/ ArtifactsStep
    \/ ChangelogStep
    \/ FundingStep
    \/ IndexStep
    \/ JsonArtifactsStep
    \/ BuildMulti
    \/ MemberSetDir
    \/ MemberCall
    \/ MemberReturn
    \/ MemberRestoreDir
    \/ BuildMultiReturn

\* The builds: one project, or a workspace.
Spec == Init /\ [][Next]_vars

\* build_context called on its own, with any configuration.
InitBuildContext ==
    /\ config \in Configs
    /\ json_only = FALSE
    /\ pc = "build_context"
    /\ context = None
    /\ pages = <<>>
    /\ index = None
    /\ trace = <<>>
    /\ result = NoResult
    /\ InitMulti
    /\ InitWriteCall
    /\ filename = <<>>
    /\ full_path = NoPath

SpecBuildContext == InitBuildContext /\ [][BuildContextStep]_vars

\* The path mapping of write applied to any page name.
InitWrite ==
    /\ InitBuild
    /\ InitMulti
    /\ InitWriteCall
    /\ filename \in PageNames
    /\ full_path = NoPath

SpecWrite == InitWrite /\ [][WritePage]_vars

\* A project build: build_single, then write on the Site it returned.
NextProject ==
    \/ BuildSingle
    \/ CleanDistDir
    \/ PlaceAssets
    \/ NeedsContextStep
    \/ BuildContextStep
    \/ TemplatesStep
    \/ AdditionalPagesStep
    \/ ArtifactsStep
    \/ ChangelogStep
    \/ FundingStep
    \/ IndexStep
    \/ WriteStart
    \/ WriteNextPage
    \/ WriteBook
    \/ WriteAssets

SpecProject == Init /\ [][NextProject]_vars

\* ------------------------------------------------------------------ properties
Done == pc = "done"

\* The calls of the trace with the given name.
CallsOf(op) == {i \in 1..Len(trace) : trace[i].op = op}

\* build_context found the release source unreachable.
FetchFailed == \E i \in CallsOf("eprintln") : trace[i].arg \in FetchErrors

\* build_context was entered: it called one of the Context constructors.
ContextRequested ==
    \E i \in 1..Len(trace) :
        trace[i].op \in {"Context::new_github", "Context::new_axodotdev", "Context::new_current"}

\* A release source client was selected and asked.
ClientAsked ==
    \E i \in 1..Len(trace) : trace[i].op \in {"Context::new_github", "Context::new_axodotdev"}

HasPage(ps, name) == \E i \in 1..Len(ps) : ps[i].filename = name

\* The names of per-release changelog pages: changelog/<tag>.html.
IsReleasePage(page) ==
    Len(page.filename) = 5 /\ SubSeq(page.filename, 1, 2) = <<"changelog", Sep>>

\* A Context that is the synthetic one: one release, of the working tree,
\* which is its latest.
IsSynthetic(ctx) ==
    /\ Len(ctx.releases) = 1
    /\ ctx.releases[1].source = "CurrentWorkingTree"
    /\ Latest(ctx) = 1

\* The errors build_single can return after build_context has absorbed a
\* failure of the source: those of Context::new_current and of later stages.
LaterErrors ==
    {"Context::new_current", "Templates::new", "build_additional_pages",
     "make_scripts_viewable", "artifacts::template_context", "render index.html",
     "render artifacts.html", "write_artifacts_json", "build_changelog_pages",
     "Funding::new", "funding::context", "render funding.html"}

\* C1: a failure of the release source is never what build_single returns.
\* build_context logs it, exactly once, and puts the synthetic Context of the
\* working tree in its place; from there only a failure of a later stage
\* stops the build, and a build that returns a Site returns one with an
\* index.html page.
C1_FetchFailureDegrades ==
    ~json_only =>
        /\ (Done /\ ~result.ok) => result.err \notin FetchErrors
        /\ FetchFailed =>
            /\ Cardinality(CallsOf("eprintln")) = 1
            /\ \A i \in CallsOf("eprintln") :
                    /\ i < Len(trace)
                    /\ trace[i + 1] = Call("Context::new_current")
            /\ IF context.some THEN IsSynthetic(context.v)
               ELSE Done /\ result = Err("Context::new_current")
            /\ Done => IF result.ok THEN HasPage(result.v.pages, IndexHtml)
                       ELSE result.err \in LaterErrors

\* C1 witness: the source failed and build_single returned a Site.
C1_Witness == ~json_only /\ FetchFailed /\ Done /\ result.ok

\* C2 as claimed: after a failure of the release source the Site has no
\* artifacts page and no changelog page of any kind.
C2_NoArtifactsNoChangelog ==
    (~json_only /\ FetchFailed /\ Done /\ result.ok) =>
        \A i \in 1..Len(result.v.pages) :
            /\ result.v.pages[i].filename \notin {ArtifactsHtml, ChangelogHtml, ChangelogRss}
            /\ ~IsReleasePage(result.v.pages[i])

\* C2 as amended: after a failure of the release source the Site has no
\* per-release changelog page; artifacts.html is there exactly when artifacts
\* are enabled, changelog.html exactly when the changelog is, and
\* changelog.rss exactly when its rss_feed is set, all rendered from the
\* synthetic Context.
C2_OnlyReleasePagesMissing ==
    (~json_only /\ FetchFailed /\ Done /\ result.ok) =>
        /\ \A i \in 1..Len(result.v.pages) : ~IsReleasePage(result.v.pages[i])
        /\ HasPage(result.v.pages, ArtifactsHtml) <=> config.artifacts
        /\ HasPage(result.v.pages, ChangelogHtml) <=> config.changelog # "none"
        /\ HasPage(result.v.pages, ChangelogRss) <=> config.changelog = "rss"

\* C2 witness: the source failed with artifacts and changelog enabled, and
\* the Site was returned.
C2_Witness ==
    /\ ~json_only /\ FetchFailed /\ Done /\ result.ok
    /\ config.artifacts /\ config.changelog = "rss"

\* C3 as claimed: a repository that cannot be parsed never makes
\* build_single return the error of parsing it, whatever components are
\* enabled.
C3_MalformedRepositoryNeverFails ==
    (~json_only /\ Done /\ config.repository = "malformed") =>
        (result.ok \/ result.err # RepoError)

\* C4: build_multi builds the members one at a time in the order of the
\* configuration; while member mi is being built the working directory is
\* that member's path; at the start of every iteration, and when build_multi
\* returns its Sites, it is the workspace root again.
C4_WorkingDirectoryFollowsMember ==
    /\ mpc \in {"call", "building", "restore"} =>
            /\ mi \in 1..Len(members)
            /\ cwd = members[mi].path
            /\ cwd # RootPath
    /\ mpc = "building" => config = members[mi].config
    /\ mpc = "loop" => cwd = RootPath
    /\ (mpc = "done" /\ mresult.ok) => cwd = RootPath
    /\ mpc \in {"loop", "call", "building"} =>
            /\ Len(results) = mi - 1
            /\ \A k \in 1..Len(results) : results[k].workspace_data = Some(members[k])

\* C4 witness: the second member is being built, after the first was.
C4_Witness ==
    /\ mpc = "building" /\ mi = 2 /\ pc = "templates"
    /\ Len(results) = 1 /\ cwd = members[2].path

\* build_multi returned the error of the build of member mi.
MemberBuildFailed == mpc = "done" /\ ~mresult.ok /\ pc = "done" /\ mresult = result

\* C5: when the build of member mi fails, build_multi returns that error and
\* no Site, nothing runs after it (no later member is built: only the members
\* before mi have a Site in the local results), and the working directory is
\* still the path of member mi, not the workspace root.
C5_MemberFailureLeavesDirectory ==
    /\ (mpc = "building" /\ pc = "done" /\ ~result.ok) => ENABLED MemberReturn
    /\ MemberBuildFailed =>
            /\ mi \in 1..Len(members)
            /\ config = members[mi].config
            /\ Len(results) = mi - 1
            /\ cwd = members[mi].path
            /\ cwd # RootPath
            /\ ~ENABLED Next

\* C5 witness: the first of two members fails.
C5_Witness == MemberBuildFailed /\ mi = 1 /\ Len(members) = 2

\* The expected disk path of a page name, from its tokens: the last path
\* component "<stem>.html", other than index.html, becomes
\* "<stem>/index.html" under the same parent; any other name is kept.
ExpectedPath(dist, name) ==
    LET p == Components(name)
        last == p[Len(p)]
        n == Len(last)
        html == p # <<>> /\ n >= 3 /\ last[n] = "html" /\ last[n - 1] = Dot
    IN  IF html /\ last # IndexHtml
        THEN Components(PathString(dist) \o <<Sep>> \o PathString(SubSeq(p, 1, Len(p) - 1))
                        \o <<Sep>> \o SubSeq(last, 1, n - 2) \o <<Sep>> \o IndexHtml)
        ELSE Components(PathString(dist) \o <<Sep>> \o name)

\* C6: write puts a page whose name has the extension html and whose last
\* path component is not index.html at <dist>/<parent>/<stem>/index.html, and
\* every other page at <dist>/<name>.
C6_PrettyLinks ==
    /\ full_path # NoPath => full_path = ExpectedPath(Dist, filename)
    /\ (full_path # NoPath /\ filename = <<"a", Dot, "html">>) =>
            full_path = <<<<"public">>, <<"a">>, IndexHtml>>
    /\ (full_path # NoPath /\ filename = <<"a", Sep, "a", Dot, "html">>) =>
            full_path = <<<<"public">>, <<"a">>, <<"a">>, IndexHtml>>
    /\ (full_path # NoPath /\ filename = IndexHtml) =>
            full_path = <<<<"public">>, IndexHtml>>
    /\ (full_path # NoPath /\ filename = <<"a", Sep>> \o IndexHtml) =>
            full_path = <<<<"public">>, <<"a">>, IndexHtml>>
    /\ (full_path # NoPath /\ filename = <<"a", Dot, "rss">>) =>
            full_path = <<<<"public">>, <<"a", Dot, "rss">>>>

\* C6 witness: a nested html page has been written.
C6_Witness == full_path # NoPath /\ filename = <<"a", Sep, "a", Dot, "html">>

\* The artifacts block produced the index of the build.
ArtifactsProducedIndex == config.artifacts /\ context.some /\ Latest(context.v) # 0

\* C7: the Site of a successful build_single has exactly one index.html, and
\* when the artifacts component produced no index it is the plain readme,
\* rendered with an empty template context.
C7_ExactlyOneIndex ==
    (~json_only /\ Done /\ result.ok) =>
        LET ps == result.v.pages
            at == {i \in 1..Len(ps) : ps[i].filename = IndexHtml}
        IN  /\ Cardinality(at) = 1
            /\ \A i \in at :
                    /\ ps[i].template = "index.html"
                    /\ ~ArtifactsProducedIndex => ps[i] = IndexPage("empty")

\* C7 witness: a build with a Context and artifacts disabled returned.
C7_Witness ==
    /\ ~json_only /\ Done /\ result.ok
    /\ context.some /\ ~config.artifacts /\ config.funding

\* The place of a page in the order of emission.
Rank(page) ==
    IF page.template = "markdown" THEN 0
    ELSE IF page.filename = ArtifactsHtml THEN 1
    ELSE IF page.filename \in {ChangelogHtml, ChangelogRss} \/ IsReleasePage(page) THEN 2
    ELSE IF page.filename = FundingHtml THEN 3
    ELSE 4

\* The pages configuration and Context determine.
ExpectedPages(cfg, ctx) ==
    BuildAdditionalPages(cfg.additional_pages)
    \o (IF ctx.some /\ cfg.artifacts /\ Latest(ctx.v) # 0
        THEN <<Page(ArtifactsHtml, "artifacts.html", "artifacts")>> ELSE <<>>)
    \o (IF ctx.some /\ cfg.changelog # "none" THEN BuildChangelogPages(ctx.v, cfg) ELSE <<>>)
    \o (IF ctx.some /\ cfg.funding THEN <<Page(FundingHtml, "funding.html", "funding")>> ELSE <<>>)
    \o <<IndexPage(IF ctx.some /\ cfg.artifacts /\ Latest(ctx.v) # 0 THEN "artifacts" ELSE "empty")>>

\* C8: in the Site of build_single the artifacts page comes before the
\* changelog pages, those before the funding page, and the index page is
\* last; the sequence of pages is the one configuration and Context determine.
C8_PageOrder ==
    (~json_only /\ Done /\ result.ok) =>
        LET ps == result.v.pages
        IN  /\ \A i, j \in 1..Len(ps) : i < j => Rank(ps[i]) <= Rank(ps[j])
            /\ ps[Len(ps)].filename = IndexHtml
            /\ ps = ExpectedPages(config, context)

\* C8 witness: a Site with artifacts, changelog, funding and index pages.
C8_Witness ==
    /\ ~json_only /\ Done /\ result.ok
    /\ HasPage(result.v.pages, ArtifactsHtml)
    /\ HasPage(result.v.pages, ReleaseHtml(TagOf(1)))
    /\ HasPage(result.v.pages, FundingHtml)

NoComponents(cfg) == ~cfg.artifacts /\ cfg.changelog = "none" /\ ~cfg.funding

\* The existence check of needs_context answered that there are releases.
ReleasesReported ==
    \E i \in CallsOf("GithubRelease::repo_has_releases") : trace[i].arg = "true"

\* No Context was built and no component page has been produced.
NoContextNoComponentPages ==
    /\ ~ContextRequested
    /\ ~context.some
    /\ \A i \in 1..Len(pages) : Rank(pages[i]) \in {0, 4}

\* C9 as claimed: build_single builds no Context when no repository is
\* configured, and none when no component is enabled, whether or not the
\* repository has releases.
C9_NoContextWithoutComponents ==
    (~json_only /\ (config.repository = "none" \/ NoComponents(config))) =>
        NoContextNoComponentPages

\* C9 as amended: build_single builds no Context when no repository is
\* configured, and none when no component is enabled and the existence check
\* does not report releases; with no component enabled no component page is
\* produced even when the Context is built.
C9_NoContextWithoutRepositoryOrReleases ==
    ~json_only =>
        /\ (config.repository = "none" \/ (NoComponents(config) /\ ~ReleasesReported)) =>
                NoContextNoComponentPages
        /\ NoComponents(config) => \A i \in 1..Len(pages) : Rank(pages[i]) \in {0, 4}
        /\ (NoComponents(config) /\ ReleasesReported /\ pc \notin {"build_context", "done"}) =>
                context.some

\* C9 witness: components are enabled without a repository and the Site is
\* returned without a Context.
C9_Witness ==
    /\ ~json_only /\ Done /\ result.ok
    /\ config.repository = "none" /\ config.changelog # "none" /\ config.artifacts

\* C10: build_context without a configured repository returns what
\* Context::new_current returns, the synthetic Context of one release of the
\* working tree that is its latest, and calls no release source client.
C10_NoRepositoryGivesCurrent ==
    (config.repository = "none" /\ pc # "build_context") =>
        /\ trace = <<Call("Context::new_current")>>
        /\ ~ClientAsked
        /\ IF context.some
           THEN IsSynthetic(context.v) /\ context.v = CurrentContext
           ELSE result = Err("Context::new_current")

\* C10 witness: build_context returned a Context without a repository.
C10_Witness == config.repository = "none" /\ pc # "build_context" /\ context.some

\* The errors of preparing the output directory.
CleanErrors == {"Io", "DistDirCreationError"}

CleanFailed == Done /\ ~result.ok /\ result.err \in CleanErrors

\* C11: when preparing the output directory fails, build_single and
\* build_single_json_only return the error and nothing else has run: no asset
\* is placed, no source is asked, no Context is built, no page is rendered;
\* every other stage runs only after the directory was prepared.  A failure
\* to create the directory is a DistDirCreationError with the dist path.
C11_DistDirFailureStopsBuild ==
    /\ CleanFailed =>
            /\ trace = <<>>
            /\ ~context.some /\ pages = <<>> /\ ~index.some
            /\ result.err = "DistDirCreationError" => result = DistDirCreationError(DistDir)
    /\ (pc \notin {"idle", "clean_dist_dir"} /\ ~CleanFailed) =>
            trace # <<>> /\ trace[1] = Call("clean_dist_dir")

\* C11 witness: build_single_json_only could not create the directory of a
\* project whose artifacts need a Context.
C11_Witness ==
    /\ json_only /\ Done /\ ~result.ok /\ result.err = "DistDirCreationError"
    /\ config.artifacts /\ config.repository = "valid"

\* The calls that place assets early in build_single, and those of write.
EarlyAssetOps == {"place_default_favicon", "place_css"}
LateAssetOps ==
    {"Asset::copy", "copy_static", "javascript::write_os_script", "css::write_additional_css"}
ContextOps ==
    {"GithubRelease::repo_has_releases", "Context::new_github", "Context::new_axodotdev",
     "Context::new_current", "eprintln"}

\* The stage of a call, with the early asset calls counted at stage `early`:
\* 0 directory preparation, 2 Context construction, 3 page building, 4 page
\* writing, 5 documentation book, 6 asset placement of write.
StageOf(op, early) ==
    IF op = "clean_dist_dir" THEN 0
    ELSE IF op \in EarlyAssetOps THEN early
    ELSE IF op \in ContextOps THEN 2
    ELSE IF op = "LocalAsset::write_new_all" THEN 4
    ELSE IF op = "mdbook::build_mdbook" THEN 5
    ELSE IF op \in LateAssetOps THEN 6
    ELSE 3

\* The calls of the trace come in the order of their stages: no call is
\* followed by one of an earlier stage.
InStageOrder(early) ==
    \A i \in 1..(Len(trace) - 1) :
        StageOf(trace[i].op, early) <= StageOf(trace[i + 1].op, early)

\* C12 as claimed: the stages of a project build run in the order directory
\* preparation, Context construction, page building, page writing,
\* documentation book, asset placement; no asset is placed before the book.
C12_AssetsAfterBook == ~json_only => InStageOrder(6)

\* C12 as amended: the order is directory preparation, placement of the
\* default favicon and of the CSS, Context construction, page building, page
\* writing, documentation book, and then the asset steps of write (favicon
\* copy, static directory, OS script, additional CSS).
C12_StageOrder ==
    ~json_only =>
        /\ InStageOrder(1)
        /\ \A i \in 1..Len(trace) :
                trace[i].op \in EarlyAssetOps => pc \notin {"idle", "clean_dist_dir", "place_assets"}
        /\ \A i \in 1..Len(trace) :
                trace[i].op \in LateAssetOps \cup {"mdbook::build_mdbook"} =>
                    wpc \in {"assets", "done"}

\* C12 witness: a project with a Context, a book and a static directory was
\* built and written.
C12_Witness ==
    /\ wpc = "done" /\ wresult.ok
    /\ ContextRequested
    /\ CallsOf("mdbook::build_mdbook") # {}
    /\ CallsOf("copy_static") # {}
    /\ CallsOf("place_css") # {}

\* The pages of a component are among ps only if the component is enabled and
\* a Context was built.
OnlyEnabledComponents(ps) ==
    \A i \in 1..Len(ps) :
        /\ Rank(ps[i]) = 1 => config.artifacts /\ context.some
        /\ Rank(ps[i]) = 2 => config.changelog # "none" /\ context.some
        /\ Rank(ps[i]) = 3 => config.funding /\ context.some

\* C13: build_single emits artifacts.html, the changelog pages and
\* funding.html only for a component that is enabled and only when a Context
\* was built; without a Context the Site holds the additional pages and
\* index.html and nothing else, whatever components are configured.
C13_ComponentsNeedContext ==
    ~json_only =>
        /\ OnlyEnabledComponents(pages)
        /\ (Done /\ result.ok) =>
                /\ OnlyEnabledComponents(result.v.pages)
                /\ ~context.some =>
                        result.v.pages = BuildAdditionalPages(config.additional_pages)
                                         \o <<IndexPage("empty")>>

\* C13 witness: a build with funding and changelog configured and no Context
\* returned a Site.
C13_Witness ==
    /\ ~json_only /\ Done /\ result.ok
    /\ ~context.some
    /\ config.funding /\ config.changelog # "none"
    /\ config.additional_pages # <<>>

\* The calls that render the artifacts template context or a page from it.
ArtifactsRenderOps ==
    {"artifacts::template_context", "render index.html", "render artifacts.html",
     "write_artifacts_json"}

\* The visibility adjustment is made at most once, after every call of
\* Context construction and before every call that renders artifacts, and
\* only the latest release of the Context is ever viewable.
ViewableOnceOnLatest ==
    LET msv == CallsOf("make_scripts_viewable")
    IN  /\ Cardinality(msv) <= 1
        /\ \A i \in msv : \A j \in 1..Len(trace) :
                /\ trace[j].op \in ContextOps => j < i
                /\ trace[j].op \in ArtifactsRenderOps => i < j
        /\ msv # {} => context.some /\ config.artifacts
        /\ context.some =>
                \A k \in 1..Len(context.v.releases) :
                    context.v.releases[k].viewable => k = Latest(context.v) /\ msv # {}

\* A step that changes a constructed Context is the visibility adjustment:
\* it changes the viewable flag of the latest release and nothing else.
ContextChangeIsViewable ==
    (context.some /\ context'.some /\ context' # context) =>
        /\ Latest(context.v) # 0
        /\ context'.v = [context.v EXCEPT !.releases[Latest(context.v)].viewable = TRUE]
        /\ CallsOf("make_scripts_viewable") = {}
        /\ Len(trace') > Len(trace)
        /\ trace'[Len(trace) + 1] = Call("make_scripts_viewable")

\* C14: make_scripts_viewable is applied at most once per build, to the
\* release latest_mut returns and to no other, after the Context has been
\* constructed and before the artifacts template context or any page is
\* rendered; nothing else of the Context changes after construction.
C14_ViewableOnlyLatestOnce == []ViewableOnceOnLatest /\ [][ContextChangeIsViewable]_vars

\* C14 witness: a build whose newest release is unparseable adjusted the
\* release after it and rendered the artifacts page.
C14_Witness ==
    /\ ~json_only /\ Done /\ result.ok
    /\ context.some /\ Len(context.v.releases) = 2
    /\ context.v.releases[1].status = "Unparseable"
    /\ context.v.releases[2].viewable
    /\ HasPage(result.v.pages, ArtifactsHtml)

\* The component a call of the page-building part of build_single belongs
\* to: 1 additional pages, 2 artifacts, 3 changelog, 4 funding, 5 the index
\* of the plain readme; 0 for the calls before page building. The index is
\* rendered inside the artifacts block when that block runs.
ComponentOf(op) ==
    IF op = "build_additional_pages" THEN 1
    ELSE IF op \in {"make_scripts_viewable", "artifacts::template_context",
                    "render artifacts.html", "write_artifacts_json"} THEN 2
    ELSE IF op = "render index.html"
         THEN (IF CallsOf("artifacts::template_context") # {} THEN 2 ELSE 5)
    ELSE IF op = "build_changelog_pages" THEN 3
    ELSE IF op \in {"Funding::new", "funding::context", "render funding.html"} THEN 4
    ELSE 0

\* build_single returned the error of a component builder or of a render.
ComponentFailed == ~json_only /\ Done /\ ~result.ok /\ ComponentOf(result.err) # 0

\* C15: a failure of an enabled component builder, of an additional page or
\* of the index makes build_single return that error and no Site: the pages
\* built so far are not returned, no call of a later component is made, and
\* a build that does return a Site has the pages of every enabled component.
C15_ComponentFailureStopsBuild ==
    /\ ComponentFailed =>
            /\ DOMAIN result = {"ok", "err"}
            /\ \A j \in 1..Len(trace) :
                    ComponentOf(trace[j].op) <= ComponentOf(result.err)
            /\ \A i \in 1..Len(pages) : Rank(pages[i]) + 1 <= ComponentOf(result.err)
    /\ (~json_only /\ Done /\ result.ok) =>
            result.v.pages = ExpectedPages(config, context)

\* C15 witness: the funding page failed to render after the artifacts and
\* changelog pages had been built.
C15_Witness ==
    /\ ComponentFailed /\ result.err = "render funding.html"
    /\ HasPage(pages, ArtifactsHtml)
    /\ HasPage(pages, ChangelogHtml)

\* The Sites pushed so far are those of the first members, in member order,
\* each carrying its own member.
SitesFollowMembers(sites) ==
    /\ Len(sites) <= Len(members)
    /\ \A k \in 1..Len(sites) :
            /\ sites[k].workspace_data = Some(members[k])
            /\ sites[k].workspace_data.v.slug = "member" \o ToString(k)

\* C16: when build_multi succeeds it returns one Site per workspace member,
\* in member order, and the workspace_data of the i-th Site is the i-th
\* member.
C16_OneSitePerMember ==
    /\ mpc \notin {"idle", "done"} => SitesFollowMembers(results)
    /\ (mpc = "done" /\ mresult.ok) =>
            /\ Len(mresult.v) = Len(members)
            /\ SitesFollowMembers(mresult.v)

\* C16 witness: a workspace of two members with different configurations
\* was built.
C16_Witness ==
    /\ mpc = "done" /\ mresult.ok
    /\ Len(members) = 2 /\ Len(mresult.v) = 2
    /\ members[1].config # members[2].config

\* The kinds of OrandaError declared with #[diagnostic(severity = "warn")].
WarnKinds ==
    {"CargoDistManifestMalformed", "ReleasesCheckFailed", "CargoDistManifestPartial",
     "BrokenProject", "FundingLoadFailed"}

\* Diagnostic::severity as derived for OrandaError: the declared severity of
\* the kind, the default (an error) where none is declared.
Severity(kind) == IF kind \in WarnKinds THEN "warn" ELSE "error"

\* The kinds of OrandaError of the build that report a source that cannot
\* be reached.
SourceUnreachableKinds == FetchErrors \cup {"ReleasesCheckFailed"}

\* C17 as claimed: an error that reports an unreachable source (a failed
\* fetch of the releases from GitHub or from the first-party host, a failed
\* existence check) is declared with warning severity, so the report of one
\* that build_context logs or build_single returns is a warning.
C17_UnreachableSourceIsWarning ==
    /\ \A i \in CallsOf("eprintln") :
            trace[i].arg \in SourceUnreachableKinds => Severity(trace[i].arg) = "warn"
    /\ (Done /\ ~result.ok /\ result.err \in SourceUnreachableKinds) =>
            Severity(result.err) = "warn"

\* needs_context of the configuration of the build, for every answer the
\* existence check could give: the check is asked only for a repository with
\* no component enabled, the result depends on the answer in no other case,
\* and it is false without a repository.
NeedsContextChecksOnlyWhenUndecided ==
    \A check \in CheckOutcomes :
        LET r == NeedsContext(config, check)
        IN  /\ r.events # <<>> => config.repository = "valid" /\ NoComponents(config)
            /\ ~(config.repository # "none" /\ NoComponents(config)) =>
                    \A other \in CheckOutcomes : NeedsContext(config, other) = r
            /\ config.repository = "none" => r.ret = Ok(FALSE)

\* C18: needs_context asks has_repo_and_releases for the network check only
\* when a repository is configured and none of artifacts, changelog and
\* funding is enabled; otherwise its result is decided without the network,
\* and it is false when no repository is configured.
C18_CheckOnlyWithoutComponents ==
    /\ pc # "idle" => NeedsContextChecksOnlyWhenUndecided
    /\ CallsOf("GithubRelease::repo_has_releases") # {} =>
            config.repository = "valid" /\ NoComponents(config)
    /\ config.repository = "none" => ~ContextRequested /\ ~context.some

\* C18 witness: builds went past needs_context with the check made for a
\* bare repository.
C18_Witness ==
    /\ pc = "build_context"
    /\ config.repository = "valid" /\ NoComponents(config)
    /\ ReleasesReported

\* Artifacts are enabled and the Context has no latest release.
NoLatest == context.some /\ config.artifacts /\ Latest(context.v) = 0

\* C19: with artifacts enabled and a Context without a latest release,
\* build_single emits no artifacts.html, writes no artifacts JSON and adjusts
\* no visibility; the index is the plain readme, and the changelog and
\* funding pages are built all the same when they are enabled.
C19_NoLatestNoArtifacts ==
    (~json_only /\ NoLatest) =>
        /\ ~HasPage(pages, ArtifactsHtml)
        /\ \A op \in {"make_scripts_viewable", "artifacts::template_context",
                       "render artifacts.html", "write_artifacts_json"} : CallsOf(op) = {}
        /\ \A k \in 1..Len(context.v.releases) : ~context.v.releases[k].viewable
        /\ index.some => index.v = IndexPage("empty")
        /\ (Done /\ result.ok) =>
                LET ps == result.v.pages
                IN  /\ ~HasPage(ps, ArtifactsHtml)
                    /\ ps[Len(ps)] = IndexPage("empty")
                    /\ config.changelog # "none" =>
                            /\ HasPage(ps, ChangelogHtml)
                            /\ \A k \in 1..Len(context.v.releases) :
                                    HasPage(ps, ReleaseHtml(context.v.releases[k].version_tag))
                    /\ config.funding => HasPage(ps, FundingHtml)

\* C19 witness: a build whose releases are all unparseable returned a Site
\* with changelog and funding pages.
C19_Witness ==
    /\ ~json_only /\ NoLatest /\ Done /\ result.ok
    /\ Len(context.v.releases) = 2
    /\ HasPage(result.v.pages, ChangelogHtml)
    /\ HasPage(result.v.pages, FundingHtml)

\* The pages of the changelog component.
IsChangelogPage(page) == Rank(page) = 2

\* The Context is the placeholder alone: one release, of the working tree.
OnlyPlaceholder(ctx) ==
    Len(ctx.releases) = 1 /\ ctx.releases[1].source = "CurrentWorkingTree"

\* C20: build_changelog_pages returns changelog.html, then changelog.rss if
\* and only if rss_feed is set, then changelog/<version_tag>.html for every
\* release of the Context in Context order, whatever its parse status; a
\* Context that is the CurrentWorkingTree placeholder alone gets no
\* per-release page.
C20_ChangelogPagesOrder ==
    (~json_only /\ CallsOf("build_changelog_pages") # {}) =>
        LET seg == SelectSeq(pages, IsChangelogPage)
            rs == context.v.releases
            head == IF config.changelog = "rss" THEN 2 ELSE 1
        IN  /\ Len(seg) >= head
            /\ seg[1].filename = ChangelogHtml
            /\ config.changelog = "rss" => seg[2].filename = ChangelogRss
            /\ \A i \in 1..Len(seg) :
                    /\ seg[i].filename = ChangelogHtml => i = 1
                    /\ seg[i].filename = ChangelogRss => i = 2 /\ config.changelog = "rss"
            /\ Len(seg) = head + (IF OnlyPlaceholder(context.v) THEN 0 ELSE Len(rs))
            /\ \A k \in 1..(Len(seg) - head) :
                    seg[head + k].filename = <<"changelog", Sep, rs[k].version_tag, Dot, "html">>

\* C20 witness: the changelog of two releases, the newer one unparseable,
\* was built with its feed.
C20_Witness ==
    /\ ~json_only /\ CallsOf("build_changelog_pages") # {}
    /\ config.changelog = "rss"
    /\ Len(context.v.releases) = 2
    /\ context.v.releases[1].status = "Unparseable"
    /\ context.v.releases[2].status = "Partial"
    /\ Len(SelectSeq(pages, IsChangelogPage)) = 4

\* The place of a call of write in its order of steps; 0 for the calls of
\* the build.
WriteRank(op) ==
    IF op = "LocalAsset::write_new_all" THEN 1
    ELSE IF op = "mdbook::build_mdbook" THEN 2
    ELSE IF op = "Asset::copy" THEN 3
    ELSE IF op = "copy_static" THEN 4
    ELSE IF op = "javascript::write_os_script" THEN 5
    ELSE IF op = "css::write_additional_css" THEN 6
    ELSE 0

\* The calls of write so far are in the order of its steps, each step after
\* the page loop made at most once.
WriteInOrder ==
    \A i \in 1..(Len(trace) - 1) :
        /\ WriteRank(trace[i].op) <= WriteRank(trace[i + 1].op)
        /\ WriteRank(trace[i].op) >= 2 => WriteRank(trace[i].op) < WriteRank(trace[i + 1].op)

\* The files on disk only grow, and by the file of the next page of the
\* Site in page-list order: no step of write removes or replaces one.
WrittenGrowsInPageOrder ==
    written' # written =>
        /\ wpc = "pages" /\ Len(written) < Len(result.v.pages)
        /\ written' = Append(written,
                             ExpectedPath(Dist, result.v.pages[Len(written) + 1].filename))
        /\ trace' = Append(trace, Call("LocalAsset::write_new_all"))

\* write has stopped where its first step failed, or has made every step
\* its Config asks for.
WriteStopsAtFailure ==
    wpc # "idle" =>
        /\ WriteInOrder
        /\ Len(written) <= Len(result.v.pages)
        /\ \A i \in 1..Len(trace) :
                WriteRank(trace[i].op) >= 2 => Len(written) = Len(result.v.pages)
        /\ (wpc = "done" /\ ~wresult.ok) =>
                /\ WriteRank(wresult.err) # 0
                /\ \A i \in 1..Len(trace) :
                        WriteRank(trace[i].op) >= 2 =>
                            WriteRank(trace[i].op) < WriteRank(wresult.err)
                /\ wresult.err = "LocalAsset::write_new_all" =>
                        Len(written) = wi - 1 /\ wi <= Len(result.v.pages)
        /\ (wpc = "done" /\ wresult.ok) =>
                /\ Len(written) = Len(result.v.pages)
                /\ (CallsOf("mdbook::build_mdbook") # {}) = wconfig.mdbook
                /\ (CallsOf("Asset::copy") # {}) = wconfig.favicon
                /\ CallsOf("javascript::write_os_script") # {}
                /\ (CallsOf("css::write_additional_css") # {}) = wconfig.additional_css

\* C21: write writes every page in page-list order, then builds the book if
\* one is configured, then copies the favicon and the static directory,
\* writes the OS script and the additional CSS; it stops at the first step
\* that fails, and the pages written before the failure stay on disk.
C21_WriteStopsAtFirstFailure ==
    []WriteStopsAtFailure /\ [][WrittenGrowsInPageOrder]_vars

\* C21 witness: a page write failed after two pages had been written.
C21_Witness ==
    /\ wpc = "done" /\ ~wresult.ok
    /\ wresult.err = "LocalAsset::write_new_all"
    /\ Len(written) = 2
    /\ Len(result.v.pages) > 3

\* The calls build_single makes and build_single_json_only does not: the
\* placement of the favicon and of the CSS, the templates and every render.
PageBuildingOps ==
    EarlyAssetOps \cup
    {"Templates::new", "build_additional_pages", "render index.html",
     "render artifacts.html", "build_changelog_pages", "Funding::new",
     "funding::context", "render funding.html"}

\* C22: a successful build_single_json_only returns a Site without pages
\* and without workspace_data; it writes the artifacts JSON only with
\* artifacts enabled, a Context with a latest release, and after the
\* artifacts template context was computed; it places no CSS and no favicon.
C22_JsonOnlyNoPages ==
    json_only =>
        /\ (Done /\ result.ok) =>
                /\ result.v.pages = <<>>
                /\ result.v.workspace_data = None
        /\ pages = <<>> /\ index = None
        /\ \A i \in 1..Len(trace) : trace[i].op \notin PageBuildingOps
        /\ \A i \in CallsOf("write_artifacts_json") :
                /\ config.artifacts /\ context.some /\ Latest(context.v) # 0
                /\ i >= 3
                /\ trace[i - 1].op = "artifacts::template_context"
                /\ trace[i - 2].op = "make_scripts_viewable"
        /\ (Done /\ result.ok /\ config.artifacts /\ context.some /\ Latest(context.v) # 0) =>
                CallsOf("artifacts::template_context") # {}

\* C22 witness: build_single_json_only wrote the artifacts JSON and
\* returned.
C22_Witness ==
    /\ json_only /\ Done /\ result.ok
    /\ CallsOf("write_artifacts_json") # {}
    /\ Len(context.v.releases) = 2
====
